---- MODULE Spec2Model ----
(***************************************************************************)
(* Model of the charting component of the trading assistant front end.     *)
(*                                                                         *)
(* Two implementations of the StockChart component live in the repository: *)
(*   src/frontend/src/components/StockChart.jsx  (formatTime / processed / *)
(*       finalData, many overlays and oscillator panes)                    *)
(*   src/unnamed/part_007                        (buildChart: data         *)
(*       cleaning, AI price lines, geometric patterns, markers)            *)
(* Definitions modelled from part_007 carry the suffix 7 when the name     *)
(* would clash with the one of StockChart.jsx.                             *)
(*                                                                         *)
(* JavaScript values are tagged records, so that typeof, truthiness, NaN   *)
(* and the string formats of a timestamp are modelled by what they do.     *)
(***************************************************************************)
EXTENDS Integers, Sequences, FiniteSets, TLC

\* ------------------------------------------------------------------ bounds
MaxLen == 3           \* longest candle array drawn as input
MaxPatterns == 2      \* longest pattern list drawn as input
MaxRebuilds == 3      \* dependency changes of one component instance
MaxRequests == 1      \* fullscreen requests pending in the browser
MaxDrawings == 2      \* committed manual drawings
MaxRows == 2          \* canonical candles handed to the overlays
MaxFetches == 4       \* requests one page instance sends

\* ------------------------------------------------------- program constants
MsPerSec == 1000      \* Math.floor(ts / 1000)
MsPerDay == 24 * 60 * 60 * MsPerSec   \* ECMAScript Date: msPerDay

DailyIntervals == {"1d", "1wk", "1mo", "1y"}
Intervals == {"60m", "1d", "1wk"}

\* Offsets of local time from UTC (ms) of the browsers the page may run in:
\* UTC-5 (New York), UTC, UTC+9 (Seoul).
TimeZones == {0 - 5 * 60 * 60 * MsPerSec, 0, 9 * 60 * 60 * MsPerSec}

\* ------------------------------------------------------ JavaScript values
\* A plain value (OHLC field, price): typeof is the tag.
NumV(n) == [t |-> "number", n |-> n]
StrV == [t |-> "string", n |-> 0]
UndefV == [t |-> "undefined", n |-> 0]

\* A time value. fmt of a string:
\*   "date"  YYYY-MM-DD            (ISO date-only form, parsed as UTC)
\*   "space" YYYY-MM-DD HH:MM:SS   (parsed as local time)
\*   "isoZ"  YYYY-MM-DDTHH:MM:SSZ  (parsed as UTC)
\*   "bad"   any text Date cannot parse, it holds no blank
\* day counts days from 1970-01-01, ms is the time of day; n is the value
\* of a number.
TNum(n) == [t |-> "number", fmt |-> "", day |-> 0, ms |-> 0, n |-> n]
TStr(fmt, day, ms) == [t |-> "string", fmt |-> fmt, day |-> day, ms |-> ms, n |-> 0]
TUndef == [t |-> "undefined", fmt |-> "", day |-> 0, ms |-> 0, n |-> 0]
TNull == [t |-> "null", fmt |-> "", day |-> 0, ms |-> 0, n |-> 0]

\* JavaScript truthiness of a time value (the strings modelled are not empty).
Truthy(v) ==
    CASE v.t = "number" -> v.n # 0
      [] v.t = "string" -> TRUE
      [] OTHER -> FALSE

\* a || b
OrElse(a, b) == IF Truthy(a) THEN a ELSE b

\* isNaN(new Date(raw).getTime())
IsNaNDate(raw) ==
    CASE raw.t = "number" -> FALSE
      [] raw.t = "string" -> raw.fmt = "bad"
      [] raw.t = "null" -> FALSE
      [] OTHER -> TRUE

\* new Date(raw).getTime(), defined when it is not NaN; tz is the offset of
\* local time.
GetTime(raw, tz) ==
    CASE raw.t = "number" -> raw.n
      [] raw.t = "string" /\ raw.fmt = "date" -> raw.day * MsPerDay
      [] raw.t = "string" /\ raw.fmt = "isoZ" -> raw.day * MsPerDay + raw.ms
      [] raw.t = "string" /\ raw.fmt = "space" -> raw.day * MsPerDay + raw.ms - tz
      [] OTHER -> 0

\* Math.floor(a / b) for b > 0
Floor(a, b) == a \div b

\* ------------------------------------------------------------- candles
Candle(time, open, high, low, close) ==
    [time |-> time, Date |-> TUndef,
     open |-> open, high |-> high, low |-> low, close |-> close]

\* Prices are in tenths: 105 is 10.5.
CandlePool ==
    { Candle(TStr("isoZ", 1, 0), NumV(100), NumV(110), NumV(90), NumV(105)),
      Candle(TStr("isoZ", 1, 5 * 60 * 60 * MsPerSec), NumV(105), NumV(106), NumV(104), NumV(105)),
      Candle(TStr("space", 1, 9 * 60 * 60 * MsPerSec), NumV(107), NumV(108), NumV(106), NumV(107)),
      Candle(TStr("date", 2, 0), NumV(110), NumV(112), NumV(109), NumV(111)),
      Candle(TNum(MsPerDay + 500), NumV(120), NumV(121), NumV(119), NumV(120)),
      Candle(TStr("bad", 0, 0), NumV(130), NumV(131), NumV(129), NumV(130)),
      Candle(TStr("isoZ", 2, 0), NumV(140), NumV(141), NumV(139), StrV),
      [Candle(TUndef, NumV(150), NumV(151), NumV(149), NumV(150))
         EXCEPT !.Date = TStr("date", 0, 0)] }

SeqsUpTo(S, n) == UNION {[1..k -> S] : k \in 0..n}

\* ------------------------------------------ StockChart.jsx: normalization
\* formatTime(raw): the canonical key, TNull when the date is invalid.
formatTime(raw, interval, tz) ==
    IF IsNaNDate(raw) THEN TNull
    ELSE IF interval \in DailyIntervals
         THEN TStr("date", Floor(GetTime(raw, tz) + tz, MsPerDay), 0)
         ELSE TNum(Floor(GetTime(raw, tz), MsPerSec))

IsNumber(v) == v.t = "number"

\* data.map(d => ({...d, _ts})).filter(...): the rows kept, with _ts
Valid(d) ==
    /\ ~IsNaNDate(OrElse(d.time, d.Date))
    /\ IsNumber(d.open) /\ IsNumber(d.high) /\ IsNumber(d.low) /\ IsNumber(d.close)

RECURSIVE Filtered(_, _)
Filtered(data, tz) ==
    IF data = <<>> THEN <<>>
    ELSE LET d == data[Len(data)]
             r == Filtered(SubSeq(data, 1, Len(data) - 1), tz)
         IN IF Valid(d)
            THEN Append(r, [d |-> d, ts |-> GetTime(OrElse(d.time, d.Date), tz)])
            ELSE r

\* Array.prototype.sort((a, b) => a._ts - b._ts): stable, ascending
RECURSIVE SortTs(_)
SortTs(s) ==
    IF s = <<>> THEN <<>>
    ELSE LET x == s[Len(s)]
             r == SortTs(SubSeq(s, 1, Len(s) - 1))
             k == Cardinality({i \in 1..Len(r) : r[i].ts <= x.ts})
         IN SubSeq(r, 1, k) \o <<x>> \o SubSeq(r, k + 1, Len(r))

processed(data, tz) == SortTs(Filtered(data, tz))

\* the loop over processed: first occurrence of each truthy key is kept.
\* A row of finalData is {...d, time: timeVal}; src is the row it came from.
RECURSIVE Dedup(_, _, _)
Dedup(p, interval, tz) ==
    IF p = <<>> THEN <<>>
    ELSE LET x == p[Len(p)]
             r == Dedup(SubSeq(p, 1, Len(p) - 1), interval, tz)
             timeVal == formatTime(OrElse(x.d.time, x.d.Date), interval, tz)
         IN IF Truthy(timeVal) /\ \A i \in 1..Len(r) : r[i].time # timeVal
            THEN Append(r, [x.d EXCEPT !.time = timeVal])
            ELSE r

finalData(data, interval, tz) == Dedup(processed(data, tz), interval, tz)

\* ------------------------------------------------ part_007: data cleaning
\* item.time || item.Date
RawTime(d) == OrElse(d.time, d.Date)

\* [...data].map(item => ({...item, time: item.time || item.Date}))
\*          .filter(item => item.time)
RECURSIVE Mapped7(_)
Mapped7(data) ==
    IF data = <<>> THEN <<>>
    ELSE LET d == data[Len(data)]
             r == Mapped7(SubSeq(data, 1, Len(data) - 1))
         IN IF Truthy(RawTime(d)) THEN Append(r, [d EXCEPT !.time = RawTime(d)]) ELSE r

\* The comparator new Date(a.time).getTime() - new Date(b.time).getTime() is
\* NaN when either date is invalid, and sort takes NaN as +0 (equal). It is a
\* consistent comparator when no date is invalid, or when all the valid ones
\* are the same instant (then every pair compares equal).
Consistent7(s, tz) ==
    \/ \A i \in 1..Len(s) : ~IsNaNDate(s[i].time)
    \/ \A i, j \in 1..Len(s) :
          (~IsNaNDate(s[i].time) /\ ~IsNaNDate(s[j].time))
             => GetTime(s[i].time, tz) = GetTime(s[j].time, tz)

Perms(n) == {f \in [1..n -> 1..n] : \A i, j \in 1..n : f[i] = f[j] => i = j}

Tagged7(s, tz) ==
    [i \in 1..Len(s) |->
       [d |-> s[i],
        ts |-> IF \E j \in 1..Len(s) : IsNaNDate(s[j].time) THEN 0
               ELSE GetTime(s[i].time, tz)]]

Untag(p) == [i \in 1..Len(p) |-> p[i].d]

\* The arrays sort may leave: the stable ascending order under a consistent
\* comparator, any order otherwise (the order is implementation-defined).
sortedData(data, tz) ==
    LET s == Mapped7(data)
    IN IF Consistent7(s, tz)
       THEN {Untag(SortTs(Tagged7(s, tz)))}
       ELSE {[i \in 1..Len(s) |-> s[f[i]]] : f \in Perms(Len(s))}

\* timeVal.split(' ')[0]
SplitBlank(t) == IF t.fmt = "space" THEN TStr("date", t.day, 0) ELSE t

\* timeVal of the loop over sortedData
timeVal7(t, interval, tz) ==
    IF interval \in DailyIntervals /\ t.t = "string" THEN SplitBlank(t)
    ELSE IF t.t = "string"
         THEN IF IsNaNDate(t) THEN t ELSE TNum(Floor(GetTime(t, tz), MsPerSec))
         ELSE t

RECURSIVE Dedup7(_, _, _)
Dedup7(s, interval, tz) ==
    IF s = <<>> THEN <<>>
    ELSE LET d == s[Len(s)]
             r == Dedup7(SubSeq(s, 1, Len(s) - 1), interval, tz)
             timeVal == timeVal7(d.time, interval, tz)
         IN IF \A i \in 1..Len(r) : r[i].time # timeVal
            THEN Append(r, [d EXCEPT !.time = timeVal])
            ELSE r

finalData7(data, interval, tz) == {Dedup7(s, interval, tz) : s \in sortedData(data, tz)}

\* ------------------------------------------- part_007: pattern annotator
Point(time, price) == [time |-> time, price |-> price]
Pattern(name, type, points) == [name |-> name, type |-> type, points |-> points]

H9 == 9 * 60 * 60 * MsPerSec
H10 == 10 * 60 * 60 * MsPerSec

\* Patterns the backend may send: without points, with one point, two points
\* on different days, two points on one day, a second pattern starting where
\* another starts, points arriving latest first, a point without a time and
\* a point whose time does not parse.
PatternPool ==
    { Pattern("none", "trend_line", <<>>),
      Pattern("one", "trend_line", <<Point(TStr("space", 1, H9), 100)>>),
      Pattern("up", "trend_line",
              <<Point(TStr("space", 1, H9), 100), Point(TStr("space", 2, H9), 110)>>),
      Pattern("sameday", "bullish_reversal",
              <<Point(TStr("space", 1, H9), 100), Point(TStr("space", 1, H10), 101)>>),
      Pattern("res", "resistance_line",
              <<Point(TStr("space", 1, H9), 120), Point(TStr("space", 2, H10), 120)>>),
      Pattern("back", "trend_line",
              <<Point(TStr("space", 2, H9), 110), Point(TStr("space", 0, H9), 90)>>),
      Pattern("notime", "abc",
              <<Point(TUndef, 100), Point(TStr("space", 2, H9), 110)>>),
      Pattern("nat", "abc",
              <<Point(TStr("bad", 0, 0), 100), Point(TStr("space", 2, H9), 110)>>) }

\* pattern.points.map(p => ({time: t, value: p.price})).filter(p => p.time);
\* t is computed as timeVal of the data cleaning loop is.
RECURSIVE patternPoints(_, _, _)
patternPoints(points, interval, tz) ==
    IF points = <<>> THEN <<>>
    ELSE LET p == points[Len(points)]
             r == patternPoints(SubSeq(points, 1, Len(points) - 1), interval, tz)
             t == timeVal7(p.time, interval, tz)
         IN IF Truthy(t) THEN Append(r, [time |-> t, value |-> p.price]) ELSE r

\* the guard weakened to a single point
RenderableOne(pattern) == Len(pattern.points) >= 1

\* if (pattern.points && pattern.points.length >= 2)
Renderable(pattern) == Len(pattern.points) >= 2

\* a merge keyed by time: the marker replaces the one already at its time
MergeMarkerByTime(markers, marker) ==
    SelectSeq(markers, LAMBDA m : m.time # marker.time) \o <<marker>>

\* [...(mainSeries.markers() || []), marker]
MergeMarker(markers, marker) == Append(markers, marker)

\* patterns.forEach(...) on a chart whose main series has no marker yet.
\*   series: the line series added, with the pattern's index and its data
\*   markers: what mainSeries.markers() returns
\*   calls: the arrays handed to mainSeries.setMarkers, in call order
RECURSIVE Annotate(_, _, _)
Annotate(patterns, interval, tz) ==
    IF patterns = <<>> THEN [series |-> <<>>, markers |-> <<>>, calls |-> <<>>]
    ELSE LET pIdx == Len(patterns)
             pattern == patterns[pIdx]
             r == Annotate(SubSeq(patterns, 1, pIdx - 1), interval, tz)
             pts == patternPoints(pattern.points, interval, tz)
             merged == MergeMarker(r.markers, [time |-> pts[1].time, text |-> pattern.name])
         IN IF ~Renderable(pattern) THEN r
            ELSE IF Len(pts) > 0
                 THEN [series |-> Append(r.series, [pIdx |-> pIdx, title |-> pattern.name, data |-> pts]),
                       markers |-> merged,
                       calls |-> Append(r.calls, merged)]
                 ELSE [r EXCEPT !.series = Append(r.series, [pIdx |-> pIdx, title |-> pattern.name, data |-> pts])]

NoAnnot == [series |-> <<>>, markers |-> <<>>, calls |-> <<>>]

\* ------------------------------------------------ panes and scale margins
\* Scale margins are fractions of the chart height, kept in hundredths.
PaneStart == 70
PaneStep == 15

\* the oscillator blocks of StockChart.jsx in declaration order; the RSI
\* toggles share one pane
OscillatorOrder ==
    <<"showRSI", "showMACD", "showStochastic", "showCCI", "showWilliamsR", "showADX",
      "showOBV", "showMFI", "showCMF", "showROC", "showMomentum", "showTSI", "showUO",
      "showATR", "showAroon">>

PaneActive(config, k) ==
    IF k = "showRSI" THEN config \cap {"showRSI", "showRSI9", "showRSI25"} # {}
    ELSE k \in config

ActivePanes(config) == SelectSeq(OscillatorOrder, LAMBDA k : PaneActive(config, k))

\* let paneIndex = 0.7; paneIndex += 0.15 after each active pane
paneIndex(n) == PaneStart + PaneStep * (n - 1)

\* chart.priceScale(pane).applyOptions({ scaleMargins: { top: paneIndex, bottom } })
OscillatorPanes(config) ==
    [n \in 1..Len(ActivePanes(config)) |->
        [pane |-> ActivePanes(config)[n], top |-> paneIndex(n),
         bottom |-> IF ActivePanes(config)[n] = "showMACD" THEN 0 ELSE PaneStep]]

\* StockChart.jsx passes no scaleMargins for the right price scale: the main
\* pane keeps the margins the library starts with
DefaultScaleMargins == [top |-> 20, bottom |-> 10]
mainScaleMargins(config) == DefaultScaleMargins

\* part_007: scaleMargins: { top: 0.1, bottom: showRSI || showMACD ? 0.35 : 0.2 }
mainScaleMargins7(config) ==
    [top |-> 10, bottom |-> IF config \cap {"showRSI", "showMACD"} # {} THEN 35 ELSE 20]

\* the oscillator panes the toggles ask for
Requested(im, config) ==
    IF im = "jsx" THEN Len(ActivePanes(config))
    ELSE Cardinality(config \cap {"showRSI", "showMACD"})

Layout(im, config) ==
    [main |-> IF im = "jsx" THEN mainScaleMargins(config) ELSE mainScaleMargins7(config),
     panes |-> IF im = "jsx" THEN OscillatorPanes(config) ELSE <<>>,
     requested |-> Requested(im, config)]

\* volumeSeries.priceScale().applyOptions({ scaleMargins: { top: 0.8, bottom: 0 } })
VolumePane == [pane |-> "showVolume", top |-> 80, bottom |-> 0]

\* the sub-panes of a build of StockChart.jsx in declaration order: the
\* volume histogram, then the oscillators
SubPanes(config) ==
    (IF "showVolume" \in config THEN <<VolumePane>> ELSE <<>>) \o OscillatorPanes(config)

\* the sub-pane toggles the model flips
PaneToggles ==
    {"showVolume", "showRSI", "showRSI9", "showMACD", "showStochastic", "showCCI",
     "showATR", "showAroon"}

\* ------------------------------------------------ overlays and oscillators
\* An indicator field of a canonical candle: missing, 0 or another number.
IndicatorValues == {UndefV, NumV(0), NumV(5)}

\* the indicator keys the model draws, in the order their blocks run:
\* StockChart.jsx sma_5 (overlay), macd_hist and cci (oscillators);
\* part_007 sma20
OverlayKeys(im) == IF im = "jsx" THEN <<"sma_5", "macd_hist", "cci">> ELSE <<"sma20">>

ToggleOf(key) ==
    CASE key = "sma_5" -> "showSMA5"
      [] key = "macd_hist" -> "showMACD"
      [] key = "cci" -> "showCCI"
      [] OTHER -> "showSMA"

\* the filter in front of setData: finalData.filter(d => d[dataKey]), and
\* d.macd_hist !== undefined for the MACD histogram
KeptBy(key, v) == IF key = "macd_hist" THEN v # UndefV ELSE Truthy(v)

\* series.setData(finalData.filter(...).map(d => ({ time: d.time, value: d[dataKey] })))
SeriesData(rows, key) ==
    SelectSeq([i \in 1..Len(rows) |-> [time |-> i, value |-> rows[i][key]]],
              LAMBDA pt : KeptBy(key, pt.value))

\* if (chartConfig[configKey]) { chart.addSeries(...); series.setData(...) }
OverlaySeries(im, config, rows) ==
    LET keys == SelectSeq(OverlayKeys(im), LAMBDA k : ToggleOf(k) \in config)
    IN [n \in 1..Len(keys) |-> [key |-> keys[n], data |-> SeriesData(rows, keys[n])]]

\* the indicator toggles the model flips
OverlayToggles(im) == {ToggleOf(OverlayKeys(im)[n]) : n \in 1..Len(OverlayKeys(im))}

\* ------------------------------------------ DrawingToolController (spec 4.5)
\* Neither StockChart.jsx nor part_007 holds the drawing tools; AnalysisPage
\* passes a chartType prop that neither of them reads. The controller is
\* modelled from sections 3, 4.5 and 7(d) of the specification.
NoPoint == [resolved |-> FALSE, time |-> 0, price |-> 0]
ChartPoint(time, price) == [resolved |-> TRUE, time |-> time, price |-> price]

\* what a pointer event resolves to: nothing, or a time and a price
PointerPool == {NoPoint, ChartPoint(1, 100), ChartPoint(2, 110)}

Tools == {"none", "hline", "trend"}

HorizontalLine(price) == [kind |-> "hline", price |-> price, start |-> NoPoint, end |-> NoPoint]
TrendLine(start, end) == [kind |-> "trend", price |-> 0, start |-> start, end |-> end]

NoPreview == [shown |-> FALSE, start |-> NoPoint, end |-> NoPoint]

\* DrawingSession {tool, pendingPoint}, the preview series and the drawing list
Session(tool, pendingPoint, preview, drawings) ==
    [tool |-> tool, pendingPoint |-> pendingPoint, preview |-> preview, drawings |-> drawings]

SessionState(s) == IF s.pendingPoint.resolved THEN "AwaitingSecondPoint" ELSE "Idle"

\* a second click that keeps the pending point and commits a segment from
\* the click to itself
onClickKeepPending(s, p) ==
    IF ~p.resolved \/ s.tool = "none" THEN s
    ELSE IF s.tool = "hline"
    THEN Session(s.tool, NoPoint, NoPreview, Append(s.drawings, HorizontalLine(p.price)))
    ELSE IF ~s.pendingPoint.resolved THEN [s EXCEPT !.pendingPoint = p]
    ELSE [s EXCEPT !.drawings = Append(s.drawings, TrendLine(p, p))]

\* pointer click on the chart; a click that resolves to no time and price is
\* ignored (7(d))
onClick(s, p) ==
    IF ~p.resolved \/ s.tool = "none" THEN s
    ELSE IF s.tool = "hline"
    THEN Session(s.tool, NoPoint, NoPreview, Append(s.drawings, HorizontalLine(p.price)))
    ELSE IF ~s.pendingPoint.resolved THEN [s EXCEPT !.pendingPoint = p]
    ELSE Session(s.tool, NoPoint, NoPreview, Append(s.drawings, TrendLine(s.pendingPoint, p)))

\* a pointer move that draws the preview in any state
onMoveAnyState(s, p) ==
    [s EXCEPT !.preview = [shown |-> TRUE, start |-> s.pendingPoint, end |-> p]]

\* pointer move: the live preview of the prospective segment
onMove(s, p) ==
    IF s.pendingPoint.resolved /\ p.resolved
    THEN [s EXCEPT !.preview = [shown |-> TRUE, start |-> s.pendingPoint, end |-> p]]
    ELSE s

\* a tool change that only switches the tool
onSelectKeepPending(s, t) == [s EXCEPT !.tool = IF t = s.tool THEN "none" ELSE t]

\* the tool button: the active tool toggles off, another tool is selected
onSelect(s, t) ==
    Session(IF t = s.tool THEN "none" ELSE t, NoPoint, NoPreview, s.drawings)

\* a clear that empties the drawing list only
onClearListOnly(s) == [s EXCEPT !.drawings = <<>>]

\* the explicit clear action
onClear(s) == Session(s.tool, NoPoint, NoPreview, <<>>)

\* component teardown
NoSession == Session("none", NoPoint, NoPreview, <<>>)

\* ------------------------------------------------- component: the props
\* analysis: null, or entry_points {buy, target, stop} and patterns
Analysis(buy, target, stop, pats) ==
    [null |-> FALSE, buy |-> buy, target |-> target, stop |-> stop, patterns |-> pats]
NullAnalysis ==
    [null |-> TRUE, buy |-> UndefV, target |-> UndefV, stop |-> UndefV, patterns |-> <<>>]

PatternUp ==
    Pattern("up", "trend_line",
            <<Point(TStr("space", 1, H9), 100), Point(TStr("space", 2, H9), 110)>>)

LifeAnalysis ==
    { NullAnalysis,
      Analysis(NumV(100), NumV(120), NumV(90), <<>>),
      Analysis(NumV(100), NumV(120), NumV(90), <<PatternUp>>) }

CandleOk == Candle(TStr("isoZ", 1, 0), NumV(100), NumV(110), NumV(90), NumV(105))
CandleNaT == Candle(TStr("bad", 0, 0), NumV(130), NumV(131), NumV(129), NumV(130))
CandleText == Candle(TStr("isoZ", 2, 0), NumV(140), NumV(141), NumV(139), StrV)

\* the data prop: no candle, only invalid rows, valid rows
LifeData == { <<>>, <<CandleNaT>>, <<CandleText>>, <<CandleOk>> }

\* useState of chartConfig: the toggles that start enabled
DefaultConfig == {"showSMA5", "showSMA20", "showBB", "showAIQuotes", "showVolume"}

\* the options prop of part_007: the defaults of its destructuring
DefaultOptions == {"showVolume", "showGrid", "showSMA", "showBB", "showAIQuotes"}

\* the toggles the model flips
ModelToggles == {"showAIQuotes", "showVolume"}

Flip(config, k) == IF k \in config THEN config \ {k} ELSE config \cup {k}

OneSeries ==
    {"showSMA5", "showSMA10", "showSMA20", "showSMA50", "showSMA60", "showSMA100",
     "showSMA120", "showSMA200", "showEMA9", "showEMA12", "showEMA20", "showEMA26",
     "showEMA50", "showEMA200", "showVWAP", "showSAR", "showVolume", "showRSI",
     "showRSI9", "showRSI25", "showMACD", "showCCI", "showWilliamsR", "showADX",
     "showOBV", "showMFI", "showCMF", "showROC", "showMomentum", "showTSI", "showUO",
     "showATR"}
TwoSeries == {"showBB", "showKC", "showDC", "showIchimoku", "showStochastic", "showAroon"}
ThreeSeries == {"showPivot"}

\* chart.addSeries calls of a complete build of StockChart.jsx
SeriesJsx(config) ==
    1 + Cardinality(config \cap OneSeries) + 2 * Cardinality(config \cap TwoSeries)
      + 3 * Cardinality(config \cap ThreeSeries)

\* mainSeries.createPriceLine calls: if (buy) ..., if (target) ..., if (stop) ...
PriceLines(config, a) ==
    IF "showAIQuotes" \in config /\ ~a.null
    THEN Cardinality({k \in {"buy", "target", "stop"} : Truthy(a[k])})
    ELSE 0

\* analysis.patterns || ... || [] under showAIQuotes && analysis
PatternsOf(config, a) == IF "showAIQuotes" \in config /\ ~a.null THEN a.patterns ELSE <<>>

\* chart.addSeries calls of a complete buildChart of part_007
Series7(config, a, i, z) ==
    1 + Len(Annotate(PatternsOf(config, a), i, z).series)
      + (IF "showSMA" \in config THEN 1 ELSE 0) + (IF "showVolume" \in config THEN 1 ELSE 0)

\* a chart instance of the library: what it shows, and whether remove() ran
LiveChart(series, priceLines, markers, complete) ==
    [removed |-> FALSE, series |-> series, priceLines |-> priceLines,
     markers |-> markers, complete |-> complete]

\* a teardown that leaves the instance in the container
RemoveAtSkipped(cs, ref) == cs

\* chartRef.current.remove()
RemoveAt(cs, ref) == IF ref = 0 THEN cs ELSE [cs EXCEPT ![ref].removed = TRUE]

NoCleanup == [kind |-> "none", gen |-> 0, chart |-> 0]

\* ------------------------------------------- the pages around StockChart
\* AnalysisPage.jsx and the first App of App.jsx keep selectedInterval and
\* history in state and hand both to StockChart. A candle array is modelled
\* by the interval it was fetched for and the number of the request that
\* brought it.
Pages == {"AnalysisPage", "App"}

\* the interval bar; of its six values the three the view buttons select too
INTERVALS == {"60m", "1d", "1wk"}

\* the short / medium / long buttons of the report
Views == {"short", "medium", "long"}
ViewInterval(v) == CASE v = "short" -> "60m" [] v = "medium" -> "1d" [] OTHER -> "1wk"

\* useState([])
NoHistory == [fetchedFor |-> "none", seq |-> 0]

\* setHistory(res.data.data) with the response of request r
setHistory(r) == [fetchedFor |-> r.interval, seq |-> r.seq]

\* an HTTP request in flight; interval is the one in its query string
Request(seq, kind, sym, int) == [seq |-> seq, kind |-> kind, sym |-> sym, interval |-> int]

\* <StockChart data={history} interval={selectedInterval} .../>
StockChartProps(h, si) == [data |-> h, interval |-> si]

VARIABLES tz, interval, data, phase, mainData, again, mainData7, again7,
          patterns, annot,
          impl, analysis, chartConfig, mounted, charts, chartRef, timer, rafs,
          listeners, cleanup, localError, raised, thrownAt, createCalled, stale, rebuilds,
          session, lastEvent, layout, prevLayout,
          isFullscreen, fullscreenElement, fsRequests, fsListeners,
          fieldRows, overlays,
          page, ticker, analysisTicker, selectedInterval, history, requests,
          issued, selected, rejected

envVars == <<tz, interval>>
normVars == <<data, mainData, again, mainData7, again7>>
annotVars == <<patterns, annot>>
lifeVars == <<impl, analysis, chartConfig, mounted, charts, chartRef, timer, rafs,
              listeners, cleanup, localError, raised, thrownAt, createCalled, stale, rebuilds>>
vars == <<tz, interval, phase, data, mainData, again, mainData7, again7, patterns, annot,
          impl, analysis, chartConfig, mounted, charts, chartRef, timer, rafs,
          listeners, cleanup, localError, raised, thrownAt, createCalled, stale, rebuilds,
          session, lastEvent, layout, prevLayout,
          isFullscreen, fullscreenElement, fsRequests, fsListeners,
          fieldRows, overlays,
          page, ticker, analysisTicker, selectedInterval, history, requests,
          issued, selected, rejected>>
pageVars == <<page, ticker, analysisTicker, selectedInterval, history, requests,
              issued, selected, rejected>>
ovVars == <<fieldRows, overlays>>
fsVars == <<isFullscreen, fullscreenElement, fsRequests, fsListeners>>
drawVars == <<session, lastEvent>>
paneVars == <<layout, prevLayout>>

NoEvent == [kind |-> "none", point |-> NoPoint, from |-> "Idle"]
DrawIdle == session = NoSession /\ lastEvent = NoEvent
OvIdle == fieldRows = <<>> /\ overlays = <<>>

\* a page as it is constructed
PageIdle ==
    /\ page = "AnalysisPage"
    /\ ticker = ""
    /\ analysisTicker = ""
    /\ selectedInterval = "1d"
    /\ history = NoHistory
    /\ requests = {}
    /\ issued = 0
    /\ selected = FALSE
    /\ rejected = FALSE
FsIdle ==
    /\ isFullscreen = FALSE
    /\ fullscreenElement = FALSE
    /\ fsRequests = <<>>
    /\ fsListeners = 0
PaneIdle == layout = Layout("jsx", DefaultConfig) /\ prevLayout = layout

\* no component instance
LifeIdle ==
    /\ impl = "jsx"
    /\ analysis = NullAnalysis
    /\ chartConfig = DefaultConfig
    /\ mounted = FALSE
    /\ charts = <<>>
    /\ chartRef = 0
    /\ timer = "none"
    /\ rafs = {}
    /\ listeners = {}
    /\ cleanup = NoCleanup
    /\ localError = FALSE
    /\ raised = FALSE
    /\ thrownAt = "none"
    /\ createCalled = FALSE
    /\ stale = FALSE
    /\ rebuilds = 0

NoNorm == mainData = <<>> /\ again = <<>> /\ mainData7 = <<>> /\ again7 = <<>>

\* ------------------------------------------------ normalizer, input/output
NormInit ==
    /\ tz \in TimeZones
    /\ interval \in Intervals
    /\ data \in SeqsUpTo(CandlePool, MaxLen)
    /\ phase = "input"
    /\ NoNorm
    /\ patterns = <<>>
    /\ annot = NoAnnot
    /\ LifeIdle
    /\ DrawIdle
    /\ PaneIdle
    /\ FsIdle
    /\ PageIdle
    /\ OvIdle

\* mainSeries.setData(finalData) of both components
Normalize ==
    /\ phase = "input"
    /\ mainData' = finalData(data, interval, tz)
    /\ mainData7' \in finalData7(data, interval, tz)
    /\ phase' = "normalized"
    /\ UNCHANGED <<pageVars, ovVars, drawVars, paneVars, fsVars, envVars, data, again, again7, annotVars, lifeVars>>

\* the output handed back as the data prop
Renormalize ==
    /\ phase = "normalized"
    /\ again' = finalData(mainData, interval, tz)
    /\ again7' \in finalData7(mainData7, interval, tz)
    /\ phase' = "renormalized"
    /\ UNCHANGED <<pageVars, ovVars, drawVars, paneVars, fsVars, envVars, data, mainData, mainData7, annotVars, lifeVars>>

NormNext == Normalize \/ Renormalize

SpecNorm == NormInit /\ [][NormNext]_vars

\* ------------------------------------------- pattern annotator, input/output
AnnotInit ==
    /\ tz \in TimeZones
    /\ interval \in Intervals
    /\ patterns \in SeqsUpTo(PatternPool, MaxPatterns)
    /\ phase = "input"
    /\ annot = NoAnnot
    /\ data = <<>>
    /\ NoNorm
    /\ LifeIdle
    /\ DrawIdle
    /\ PaneIdle
    /\ FsIdle
    /\ PageIdle
    /\ OvIdle

\* the block (2) Geometric Patterns of buildChart, showAIQuotes && analysis
AnnotatePatterns ==
    /\ phase = "input"
    /\ annot' = Annotate(patterns, interval, tz)
    /\ phase' = "annotated"
    /\ UNCHANGED <<pageVars, ovVars, drawVars, paneVars, fsVars, envVars, normVars, patterns, lifeVars>>

AnnotNext == AnnotatePatterns

SpecAnnot == AnnotInit /\ [][AnnotNext]_vars

\* ------------------------------------------------- component: lifecycle
\* A component instance is StockChart.jsx (impl "jsx") or part_007 (impl
\* "p7"). React runs the cleanup the previous effect returned, then the
\* effect, in one step after every change of a dependency.
Init ==
    /\ tz = 0
    /\ impl \in {"jsx", "p7"}
    /\ interval = "1d"
    /\ data \in LifeData
    /\ analysis \in LifeAnalysis
    /\ chartConfig = (IF impl = "jsx" THEN DefaultConfig ELSE DefaultOptions)
    /\ phase = "life"
    /\ NoNorm
    /\ patterns = <<>>
    /\ annot = NoAnnot
    /\ mounted = FALSE
    /\ charts = <<>>
    /\ chartRef = 0
    /\ timer = "none"
    /\ rafs = {}
    /\ listeners = {}
    /\ cleanup = NoCleanup
    /\ localError = FALSE
    /\ raised = FALSE
    /\ thrownAt = "none"
    /\ createCalled = FALSE
    /\ stale = FALSE
    /\ rebuilds = 0
    /\ DrawIdle
    /\ PaneIdle
    /\ FsIdle
    /\ PageIdle
    /\ OvIdle

Handler(gen, chart) == [gen |-> gen, chart |-> chart]

\* a cleanup that leaves the resize listener registered
ListenersKept == listeners

\* the cleanup the previous effect returned:
\*   StockChart.jsx: window.removeEventListener('resize', handleResize)
\*   part_007: clearTimeout(timer); removeEventListener; chartRef.current.remove()
ListenersAfterCleanup ==
    IF cleanup.kind = "none" THEN listeners
    ELSE listeners \ {Handler(cleanup.gen, cleanup.chart)}
ChartsAfterCleanup == IF cleanup.kind = "p7" THEN RemoveAt(charts, chartRef) ELSE charts
TimerAfterCleanup == IF cleanup.kind = "p7" THEN "none" ELSE timer

\* the effect of StockChart.jsx on props d, i, a and toggles c; gen names the
\* handler it registers. The library may throw in createChart or later.
EffectJsx(d, i, a, c, gen) ==
    LET ls == ListenersAfterCleanup
        cs == RemoveAt(charts, chartRef)
        idx == Len(charts) + 1
    IN /\ timer' = timer /\ rafs' = rafs /\ localError' = localError
       /\ IF d = <<>>
          THEN /\ charts' = charts /\ chartRef' = chartRef /\ listeners' = ls
               /\ cleanup' = NoCleanup /\ raised' = FALSE /\ thrownAt' = "none" /\ createCalled' = FALSE
          ELSE IF finalData(d, i, tz) = <<>>
          THEN /\ charts' = cs /\ chartRef' = chartRef /\ listeners' = ls
               /\ cleanup' = NoCleanup /\ raised' = FALSE /\ thrownAt' = "none" /\ createCalled' = FALSE
          ELSE \/ /\ charts' = Append(cs, LiveChart(SeriesJsx(c), PriceLines(c, a), 0, TRUE))
                  /\ chartRef' = idx /\ listeners' = ls \cup {Handler(gen, idx)}
                  /\ cleanup' = [kind |-> "jsx", gen |-> gen, chart |-> idx]
                  /\ raised' = FALSE /\ thrownAt' = "none" /\ createCalled' = TRUE
               \/ /\ charts' = cs /\ chartRef' = chartRef /\ listeners' = ls
                  /\ cleanup' = NoCleanup /\ raised' = TRUE /\ thrownAt' = "createChart" /\ createCalled' = TRUE
               \/ /\ charts' = Append(cs, LiveChart(1, 0, 0, FALSE))
                  /\ chartRef' = idx /\ listeners' = ls
                  /\ cleanup' = NoCleanup /\ raised' = TRUE /\ thrownAt' = "series" /\ createCalled' = TRUE

\* the effect of part_007: teardown, then buildChart on a timer. With
\* localError set the component renders the error text and no container.
Effect7(gen) ==
    LET ls == ListenersAfterCleanup
        cs == ChartsAfterCleanup
    IN /\ rafs' = rafs /\ localError' = localError
       /\ raised' = FALSE /\ thrownAt' = "none" /\ createCalled' = FALSE
       /\ IF localError
          THEN /\ charts' = cs /\ chartRef' = chartRef /\ timer' = TimerAfterCleanup
               /\ listeners' = ls /\ cleanup' = NoCleanup
          ELSE /\ charts' = RemoveAt(cs, chartRef) /\ chartRef' = 0
               /\ timer' = "pending"
               /\ listeners' = ls \cup {Handler(gen, 0)}
               /\ cleanup' = [kind |-> "p7", gen |-> gen, chart |-> 0]

RunEffect(d, i, a, c, gen) ==
    IF impl = "jsx" THEN EffectJsx(d, i, a, c, gen) ELSE Effect7(gen)

\* first render and first run of the effect
Mount ==
    /\ phase = "life" /\ ~mounted /\ rebuilds = 0
    /\ mounted' = TRUE
    /\ rebuilds' = 1
    /\ RunEffect(data, interval, analysis, chartConfig, 1)
    /\ fsListeners' = (IF impl = "jsx" THEN fsListeners + 1 ELSE fsListeners)
    /\ UNCHANGED <<pageVars, ovVars, drawVars, paneVars, isFullscreen, fullscreenElement, fsRequests, tz, interval, phase, normVars, annotVars, impl, analysis, chartConfig, stale>>

\* one dependency changes: the data, the interval, the analysis or a toggle
DepsChange ==
    /\ phase = "life" /\ mounted /\ rebuilds < MaxRebuilds
    /\ \E d \in LifeData, i \in Intervals, a \in LifeAnalysis, c \in SUBSET (DefaultConfig \cup DefaultOptions \cup ModelToggles) :
         /\ \/ i = interval /\ a = analysis /\ c = chartConfig
            \/ d = data /\ i # interval /\ a = analysis /\ c = chartConfig
            \/ d = data /\ i = interval /\ a # analysis /\ c = chartConfig
            \/ d = data /\ i = interval /\ a = analysis /\ \E k \in ModelToggles : c = Flip(chartConfig, k)
         /\ data' = d /\ interval' = i /\ analysis' = a /\ chartConfig' = c
         /\ rebuilds' = rebuilds + 1
         /\ RunEffect(d, i, a, c, rebuilds + 1)
    /\ UNCHANGED <<pageVars, ovVars, drawVars, paneVars, fsVars, tz, phase, mainData, again, mainData7, again7, annotVars, impl, mounted, stale>>

\* setTimeout(buildChart, 100) of part_007 fires
BuildChart ==
    /\ phase = "life" /\ impl = "p7" /\ timer = "pending"
    /\ timer' = "none"
    /\ LET pats == PatternsOf(chartConfig, analysis)
           idx == Len(charts) + 1
           lines == PriceLines(chartConfig, analysis)
       IN IF data = <<>>
          THEN UNCHANGED <<charts, chartRef, rafs, localError, raised, thrownAt, createCalled>>
          ELSE \E fd \in finalData7(data, interval, tz) :
            IF fd = <<>>
            THEN UNCHANGED <<charts, chartRef, rafs, localError, raised, thrownAt, createCalled>>
            ELSE \/ /\ charts' = Append(charts,
                          LiveChart(Series7(chartConfig, analysis, interval, tz), lines,
                                    Len(Annotate(pats, interval, tz).markers), TRUE))
                    /\ chartRef' = idx /\ rafs' = rafs \cup {idx} /\ createCalled' = TRUE
                    /\ UNCHANGED <<localError, raised, thrownAt>>
                 \/ /\ localError' = TRUE /\ raised' = TRUE /\ thrownAt' = "createChart" /\ createCalled' = TRUE
                    /\ UNCHANGED <<charts, chartRef, rafs>>
                 \/ /\ charts' = Append(charts, LiveChart(1, 0, 0, FALSE))
                    /\ localError' = TRUE /\ raised' = TRUE /\ thrownAt' = "series" /\ createCalled' = TRUE
                    /\ UNCHANGED <<chartRef, rafs>>
                 \/ /\ \E k \in 1..Len(pats) : Renderable(pats[k])
                    /\ charts' = Append(charts, LiveChart(2, lines, 0, FALSE))
                    /\ localError' = TRUE /\ raised' = TRUE /\ thrownAt' = "pattern" /\ createCalled' = TRUE
                    /\ UNCHANGED <<chartRef, rafs>>
    /\ UNCHANGED <<pageVars, ovVars, drawVars, paneVars, fsVars, tz, interval, phase, normVars, annotVars, impl, analysis, chartConfig,
                   mounted, listeners, cleanup, stale, rebuilds>>

\* requestAnimationFrame callback of a build: chart.timeScale().fitContent()
AnimationFrame ==
    /\ phase = "life"
    /\ \E idx \in rafs :
         /\ rafs' = rafs \ {idx}
         /\ stale' = (stale \/ charts[idx].removed)
    /\ UNCHANGED <<pageVars, ovVars, drawVars, paneVars, fsVars, tz, interval, phase, normVars, annotVars, impl, analysis, chartConfig,
                   mounted, charts, chartRef, timer, listeners, cleanup, localError,
                   raised, thrownAt, createCalled, rebuilds>>

\* the chart a resize handler calls applyOptions on, 0 when it calls none
Target(h) ==
    IF impl = "jsx" THEN h.chart
    ELSE IF chartRef # 0 /\ mounted /\ ~localError THEN chartRef ELSE 0

\* a window resize event runs every registered handleResize
Resize ==
    /\ phase = "life" /\ listeners # {}
    /\ stale' = (stale \/ \E h \in listeners : Target(h) # 0 /\ charts[Target(h)].removed)
    /\ UNCHANGED <<pageVars, ovVars, drawVars, paneVars, fsVars, tz, interval, phase, normVars, annotVars, impl, analysis, chartConfig,
                   mounted, charts, chartRef, timer, rafs, listeners, cleanup, localError,
                   raised, thrownAt, createCalled, rebuilds>>

\* the component is unmounted: only the cleanup runs
Unmount ==
    /\ phase = "life" /\ mounted
    /\ mounted' = FALSE
    /\ listeners' = ListenersAfterCleanup
    /\ charts' = ChartsAfterCleanup
    /\ timer' = TimerAfterCleanup
    /\ cleanup' = NoCleanup
    /\ fsListeners' = (IF impl = "jsx" THEN fsListeners - 1 ELSE fsListeners)
    /\ UNCHANGED <<pageVars, ovVars, drawVars, paneVars, isFullscreen, fullscreenElement, fsRequests, tz, interval, phase, normVars, annotVars, impl, analysis, chartConfig,
                   chartRef, rafs, localError, raised, thrownAt, createCalled, stale, rebuilds>>

\* setIsFullscreen(v): a changed value re-renders and runs the rebuild
\* effect, which has isFullscreen among its dependencies
SetIsFullscreen(v) ==
    /\ isFullscreen' = v
    /\ IF v = isFullscreen
       THEN UNCHANGED <<charts, chartRef, timer, rafs, listeners, cleanup, localError,
                        raised, thrownAt, createCalled, rebuilds>>
       ELSE /\ rebuilds < MaxRebuilds
            /\ rebuilds' = rebuilds + 1
            /\ RunEffect(data, interval, analysis, chartConfig, rebuilds + 1)

FsUnchanged ==
    UNCHANGED <<pageVars, ovVars, drawVars, paneVars, tz, interval, phase, normVars, annotVars, impl,
                analysis, chartConfig, mounted, stale, fsListeners>>

\* the fullscreen button of StockChart.jsx: the request goes to the browser
\* and isFullscreen is set at once
toggleFullscreen ==
    /\ phase = "life" /\ impl = "jsx" /\ mounted
    /\ Len(fsRequests) < MaxRequests
    /\ fsRequests' = Append(fsRequests, IF fullscreenElement THEN "exit" ELSE "enter")
    /\ SetIsFullscreen(~fullscreenElement)
    /\ UNCHANGED fullscreenElement
    /\ FsUnchanged

\* document 'fullscreenchange': handleFsChange of every registered listener
handleFsChange(element) ==
    IF fsListeners > 0 THEN SetIsFullscreen(element)
    ELSE UNCHANGED <<isFullscreen, charts, chartRef, timer, rafs, listeners, cleanup,
                     localError, raised, thrownAt, createCalled, rebuilds>>

\* the browser grants the oldest request; the document's fullscreen element
\* changes and fullscreenchange is dispatched, unless nothing changes
FullscreenGrant ==
    /\ phase = "life" /\ fsRequests # <<>>
    /\ fsRequests' = Tail(fsRequests)
    /\ fullscreenElement' = (Head(fsRequests) = "enter")
    /\ IF fullscreenElement' # fullscreenElement
       THEN handleFsChange(fullscreenElement')
       ELSE UNCHANGED <<isFullscreen, charts, chartRef, timer, rafs, listeners, cleanup,
                        localError, raised, thrownAt, createCalled, rebuilds>>
    /\ FsUnchanged

\* the browser denies the oldest request: no fullscreenchange is dispatched
FullscreenDeny ==
    /\ phase = "life" /\ fsRequests # <<>>
    /\ fsRequests' = Tail(fsRequests)
    /\ UNCHANGED <<isFullscreen, fullscreenElement, charts, chartRef, timer, rafs,
                   listeners, cleanup, localError, raised, thrownAt, createCalled, rebuilds>>
    /\ FsUnchanged

\* the user leaves fullscreen with the Escape key
FullscreenEscape ==
    /\ phase = "life" /\ fullscreenElement
    /\ fullscreenElement' = FALSE
    /\ handleFsChange(FALSE)
    /\ UNCHANGED fsRequests
    /\ FsUnchanged

Next ==
    \/ Mount \/ DepsChange \/ BuildChart \/ AnimationFrame \/ Resize \/ Unmount
    \/ toggleFullscreen \/ FullscreenGrant \/ FullscreenDeny \/ FullscreenEscape

Spec == Init /\ [][Next]_vars

\* ------------------------------------------------ drawing tools: the events
DrawInit ==
    /\ tz = 0
    /\ interval = "1d"
    /\ data = <<>>
    /\ phase = "draw"
    /\ NoNorm
    /\ patterns = <<>>
    /\ annot = NoAnnot
    /\ LifeIdle
    /\ DrawIdle
    /\ PaneIdle
    /\ FsIdle
    /\ PageIdle
    /\ OvIdle

Event(kind, point) == [kind |-> kind, point |-> point, from |-> SessionState(session)]

DrawUnchanged == UNCHANGED <<pageVars, ovVars, paneVars, fsVars, envVars, phase, normVars, annotVars, lifeVars>>

\* the user presses a tool button
SelectTool ==
    /\ phase = "draw"
    /\ \E t \in Tools \ {"none"} :
         /\ session' = onSelect(session, t)
         /\ lastEvent' = Event("select", NoPoint)
    /\ DrawUnchanged

\* pointer click on the chart
Click ==
    /\ phase = "draw"
    /\ \E p \in PointerPool :
         /\ Len(onClick(session, p).drawings) <= MaxDrawings
         /\ session' = onClick(session, p)
         /\ lastEvent' = Event("click", p)
    /\ DrawUnchanged

\* pointer move over the chart
Move ==
    /\ phase = "draw"
    /\ \E p \in PointerPool :
         /\ session' = onMove(session, p)
         /\ lastEvent' = Event("move", p)
    /\ DrawUnchanged

\* the explicit clear action
Clear ==
    /\ phase = "draw"
    /\ session' = onClear(session)
    /\ lastEvent' = Event("clear", NoPoint)
    /\ DrawUnchanged

\* component teardown: the drawing list and the session end with it
Teardown ==
    /\ phase = "draw"
    /\ session' = NoSession
    /\ lastEvent' = Event("teardown", NoPoint)
    /\ DrawUnchanged

DrawNext == SelectTool \/ Click \/ Move \/ Clear \/ Teardown

SpecDraw == DrawInit /\ [][DrawNext]_vars


\* --------------------------------------------- panes: the toggles at work
PaneInit ==
    /\ tz = 0
    /\ interval = "1d"
    /\ data = <<>>
    /\ phase = "pane"
    /\ NoNorm
    /\ patterns = <<>>
    /\ annot = NoAnnot
    /\ impl \in {"jsx", "p7"}
    /\ analysis = NullAnalysis
    /\ chartConfig = (IF impl = "jsx" THEN DefaultConfig ELSE DefaultOptions)
    /\ mounted = FALSE
    /\ charts = <<>>
    /\ chartRef = 0
    /\ timer = "none"
    /\ rafs = {}
    /\ listeners = {}
    /\ cleanup = NoCleanup
    /\ localError = FALSE
    /\ raised = FALSE
    /\ thrownAt = "none"
    /\ createCalled = FALSE
    /\ stale = FALSE
    /\ rebuilds = 0
    /\ DrawIdle
    /\ FsIdle
    /\ PageIdle
    /\ OvIdle
    /\ layout = Layout(impl, chartConfig)
    /\ prevLayout = layout

\* a Toggle of the settings panel (the options prop for part_007) flips and
\* the rebuild lays the panes out again
TogglePane ==
    /\ phase = "pane"
    /\ \E k \in PaneToggles :
         /\ chartConfig' = Flip(chartConfig, k)
         /\ layout' = Layout(impl, Flip(chartConfig, k))
         /\ prevLayout' = layout
    /\ UNCHANGED <<pageVars, ovVars, drawVars, fsVars, envVars, phase, normVars, annotVars, impl, analysis, mounted,
                   charts, chartRef, timer, rafs, listeners, cleanup, localError, raised, thrownAt,
                   createCalled, stale, rebuilds>>

PaneNext == TogglePane

SpecPane == PaneInit /\ [][PaneNext]_vars

\* -------------------------------------------- overlays: toggles and fields
\* the indicator fields of one canonical candle
RowPool(im) == [{OverlayKeys(im)[n] : n \in 1..Len(OverlayKeys(im))} -> IndicatorValues]

OverlayInit ==
    /\ tz = 0
    /\ interval = "1d"
    /\ data = <<>>
    /\ phase = "overlay"
    /\ NoNorm
    /\ patterns = <<>>
    /\ annot = NoAnnot
    /\ impl \in {"jsx", "p7"}
    /\ analysis = NullAnalysis
    /\ chartConfig \in SUBSET OverlayToggles(impl)
    /\ mounted = FALSE
    /\ charts = <<>>
    /\ chartRef = 0
    /\ timer = "none"
    /\ rafs = {}
    /\ listeners = {}
    /\ cleanup = NoCleanup
    /\ localError = FALSE
    /\ raised = FALSE
    /\ thrownAt = "none"
    /\ createCalled = FALSE
    /\ stale = FALSE
    /\ rebuilds = 0
    /\ DrawIdle
    /\ PaneIdle
    /\ FsIdle
    /\ PageIdle
    /\ fieldRows \in SeqsUpTo(RowPool(impl), MaxRows) \ {<<>>}   \* finalData.length > 0
    /\ overlays = <<>>

\* the overlay and oscillator blocks of a build, on the canonical candles
RenderOverlays ==
    /\ phase = "overlay"
    /\ overlays' = OverlaySeries(impl, chartConfig, fieldRows)
    /\ phase' = "overlaid"
    /\ UNCHANGED <<pageVars, fieldRows, drawVars, paneVars, fsVars, envVars, normVars, annotVars, lifeVars>>

OverlayNext == RenderOverlays

SpecOverlay == OverlayInit /\ [][OverlayNext]_vars

\* ------------------------------------------ pages: intervals and requests
PageInit ==
    /\ tz = 0
    /\ interval = "1d"
    /\ data = <<>>
    /\ phase = "page"
    /\ NoNorm
    /\ patterns = <<>>
    /\ annot = NoAnnot
    /\ LifeIdle
    /\ DrawIdle
    /\ PaneIdle
    /\ FsIdle
    /\ OvIdle
    /\ page \in Pages
    /\ ticker = ""
    /\ analysisTicker = ""
    /\ selectedInterval = "1d"
    /\ history = NoHistory
    /\ requests = {}
    /\ issued = 0
    /\ selected = FALSE
    /\ rejected = FALSE

PageUnchanged ==
    UNCHANGED <<page, ovVars, drawVars, paneVars, fsVars, envVars, phase, normVars, annotVars, lifeVars>>

\* requests sent so far, and the history request each pending analysis of
\* App will send when it answers
Budget == issued + Cardinality({r \in requests : r.kind = "analyze"})

axiosGet(kind, sym, int) ==
    /\ requests' = requests \cup {Request(issued + 1, kind, sym, int)}
    /\ issued' = issued + 1

\* the ticker input
TypeTicker ==
    /\ phase = "page"
    /\ ticker = ""
    /\ ticker' = "AAPL"
    /\ UNCHANGED <<analysisTicker, selectedInterval, history, requests, issued, selected, rejected>>
    /\ PageUnchanged

\* AnalysisPage.handleSearch(): sym is the ticker, the interval is the
\* selectedInterval of the render that created this handleSearch
handleSearch ==
    IF ticker = ""
    THEN UNCHANGED <<requests, issued>>
    ELSE axiosGet("history", ticker, selectedInterval)

\* AnalysisPage: Enter in the search box
Search ==
    /\ phase = "page" /\ page = "AnalysisPage"
    /\ ticker # ""
    /\ Budget < MaxFetches
    /\ handleSearch
    /\ UNCHANGED <<ticker, analysisTicker, selectedInterval, history, selected, rejected>>
    /\ PageUnchanged

\* AnalysisPage: a button of the interval bar,
\* onClick={() => { setSelectedInterval(int.value); handleSearch(); }}
IntervalButton ==
    /\ phase = "page" /\ page = "AnalysisPage"
    /\ Budget < MaxFetches
    /\ \E int \in INTERVALS : selectedInterval' = int
    /\ handleSearch
    /\ selected' = TRUE
    /\ UNCHANGED <<ticker, analysisTicker, history, rejected>>
    /\ PageUnchanged

\* AnalysisPage: a short / medium / long button: setSelectedInterval and
\* fetchUpdatedData with v.interval
ViewButton ==
    /\ phase = "page" /\ page = "AnalysisPage"
    /\ Budget < MaxFetches
    /\ \E v \in Views :
         /\ selectedInterval' = ViewInterval(v)
         /\ axiosGet("history", ticker, ViewInterval(v))
    /\ selected' = TRUE
    /\ UNCHANGED <<ticker, analysisTicker, history, rejected>>
    /\ PageUnchanged

\* App.handleSearch: setAnalysis(null) and the analysis request; its
\* continuation keeps the selectedInterval of this render
SearchApp ==
    /\ phase = "page" /\ page = "App"
    /\ ticker # ""
    /\ Budget + 1 < MaxFetches
    /\ analysisTicker' = ""
    /\ axiosGet("analyze", ticker, selectedInterval)
    /\ UNCHANGED <<ticker, selectedInterval, history, selected, rejected>>
    /\ PageUnchanged

\* App: the analysis answers; setAnalysis and updateHistory(ticker,
\* selectedInterval), or setError
AnalyzeSettles ==
    /\ phase = "page"
    /\ \E r \in {q \in requests : q.kind = "analyze"}, ok \in BOOLEAN :
         IF ok
         THEN /\ analysisTicker' = r.sym
              /\ requests' = (requests \ {r}) \cup {Request(issued + 1, "history", r.sym, r.interval)}
              /\ issued' = issued + 1
         ELSE /\ requests' = requests \ {r}
              /\ UNCHANGED <<analysisTicker, issued>>
    /\ UNCHANGED <<ticker, selectedInterval, history, selected, rejected>>
    /\ PageUnchanged

\* App: a button of the interval bar, setSelectedInterval(int.value), and
\* the effect on [selectedInterval]
IntervalButtonApp ==
    /\ phase = "page" /\ page = "App"
    /\ Budget < MaxFetches
    /\ \E int \in INTERVALS \ {selectedInterval} :
         /\ selectedInterval' = int
         /\ IF analysisTicker # ""
            THEN axiosGet("history", analysisTicker, int)      \* updateHistory
            ELSE UNCHANGED <<requests, issued>>
    /\ selected' = TRUE
    /\ UNCHANGED <<ticker, analysisTicker, history, rejected>>
    /\ PageUnchanged

\* a history request answers: setHistory with its data, or console.error.
\* A request without a symbol has no route to answer it.
HistorySettles ==
    /\ phase = "page"
    /\ \E r \in {q \in requests : q.kind = "history"}, ok \in BOOLEAN :
         /\ requests' = requests \ {r}
         /\ IF ok /\ r.sym # ""
            THEN history' = setHistory(r) /\ UNCHANGED rejected
            ELSE rejected' = TRUE /\ UNCHANGED history
    /\ UNCHANGED <<ticker, analysisTicker, selectedInterval, issued, selected>>
    /\ PageUnchanged

PageNext ==
    \/ TypeTicker \/ Search \/ IntervalButton \/ ViewButton
    \/ SearchApp \/ AnalyzeSettles \/ IntervalButtonApp \/ HistorySettles

SpecPage == PageInit /\ [][PageNext]_vars


\* ================================================================ claims
\* The order of canonical time keys: numbers by value, calendar strings as
\* strings compare (YYYY-MM-DD first, a longer string with the same day after
\* it); a number and a string, or a text that is no date, are not ordered.
FmtRank(f) == CASE f = "date" -> 0 [] f = "space" -> 1 [] f = "isoZ" -> 2 [] OTHER -> 3

KeyLess(a, b) ==
    \/ a.t = "number" /\ b.t = "number" /\ a.n < b.n
    \/ /\ a.t = "string" /\ b.t = "string" /\ a.fmt # "bad" /\ b.fmt # "bad"
       /\ \/ a.day < b.day
          \/ a.day = b.day /\ FmtRank(a.fmt) < FmtRank(b.fmt)
          \/ a.day = b.day /\ a.fmt = b.fmt /\ a.ms < b.ms

StrictlyIncreasing(rows) == \A i \in 1..(Len(rows) - 1) : KeyLess(rows[i].time, rows[i + 1].time)

NoDuplicateKeys(rows) == \A i, j \in 1..Len(rows) : rows[i].time = rows[j].time => i = j

\* C1, as stated: the array either component hands to the main series'
\* setData is strictly increasing in canonical time and has no two rows with
\* the same key. part_007 refutes it.
C1_Claim ==
    phase # "input" =>
        /\ StrictlyIncreasing(mainData) /\ NoDuplicateKeys(mainData)
        /\ StrictlyIncreasing(mainData7) /\ NoDuplicateKeys(mainData7)

\* C1 for StockChart.jsx alone: finalData is strictly increasing, without
\* duplicate keys.
C1_StockChartJsx ==
    phase # "input" => StrictlyIncreasing(mainData) /\ NoDuplicateKeys(mainData)

\* C2, as stated: normalizing the normalizer's own output again, at the same
\* granularity, returns the same sequence. Both components refute it.
C2_Claim ==
    phase = "renormalized" => again = mainData /\ again7 = mainData7

\* C2 for StockChart.jsx alone, which refutes it as well.
C2_StockChartJsx == phase = "renormalized" => again = mainData

\* The valid candles of the input with canonical key k under key function,
\* and the one of them first in ascending instant (input order on a tie).
ValidIdx == {i \in 1..Len(data) : Valid(data[i])}

Key2(i) == formatTime(RawTime(data[i]), interval, tz)
Key7(i) == timeVal7(RawTime(data[i]), interval, tz)
Ts(i) == GetTime(RawTime(data[i]), tz)

Before(i, j) == Ts(i) < Ts(j) \/ (Ts(i) = Ts(j) /\ i <= j)

Count(rows, k) == Cardinality({r \in 1..Len(rows) : rows[r].time = k})

\* C3, as stated: of several valid candles with one canonical key the output
\* keeps exactly one, the first in ascending instant, with all its fields.
C3_Claim ==
    phase # "input" =>
      \A i \in ValidIdx :
        /\ (\E j \in ValidIdx : j # i /\ Key2(j) = Key2(i))
             => /\ Count(mainData, Key2(i)) = 1
                /\ (\A j \in ValidIdx : Key2(j) = Key2(i) => Before(i, j))
                     => \E r \in 1..Len(mainData) : mainData[r] = [data[i] EXCEPT !.time = Key2(i)]
        /\ (\E j \in ValidIdx : j # i /\ Key7(j) = Key7(i))
             => /\ Count(mainData7, Key7(i)) = 1
                /\ (\A j \in ValidIdx : Key7(j) = Key7(i) => Before(i, j))
                     => \E r \in 1..Len(mainData7) : mainData7[r] = [data[i] EXCEPT !.time = Key7(i)]

\* C3 for StockChart.jsx alone and keys that are not 0 (a key of 0 is falsy:
\* if (timeVal && ...) drops every candle of the first second of 1970).
C3_StockChartJsx ==
    phase # "input" =>
      \A i \in ValidIdx :
        (Truthy(Key2(i)) /\ \E j \in ValidIdx : j # i /\ Key2(j) = Key2(i))
             => /\ Count(mainData, Key2(i)) = 1
                /\ (\A j \in ValidIdx : Key2(j) = Key2(i) => Before(i, j))
                     => \E r \in 1..Len(mainData) : mainData[r] = [data[i] EXCEPT !.time = Key2(i)]

\* C3 for part_007 alone: with a row whose time does not parse among three
\* rows the comparator is inconsistent and the later candle may come first.
C3_Part007 ==
    phase # "input" =>
      \A i \in ValidIdx :
        (\E j \in ValidIdx : j # i /\ Key7(j) = Key7(i))
             => /\ Count(mainData7, Key7(i)) = 1
                /\ (\A j \in ValidIdx : Key7(j) = Key7(i) => Before(i, j))
                     => \E r \in 1..Len(mainData7) : mainData7[r] = [data[i] EXCEPT !.time = Key7(i)]

\* The example of C4: candles stamped 1970-01-02T00:00Z and 1970-01-02T05:00Z
\* (the spec's 2024-01-01 moved to the days the model draws).
C4_First == Candle(TStr("isoZ", 1, 0), NumV(100), NumV(110), NumV(90), NumV(105))
C4_Second == Candle(TStr("isoZ", 1, 5 * 60 * 60 * MsPerSec), NumV(105), NumV(106), NumV(104), NumV(105))
C4_Row == [C4_First EXCEPT !.time = TStr("date", 1, 0)]

\* C4, as stated: at daily-or-coarser granularity the two candles normalize
\* to exactly one row keyed by their calendar date with the first record's
\* OHLC values.
C4_Claim ==
    (phase # "input" /\ interval \in DailyIntervals /\ data = <<C4_First, C4_Second>>)
        => mainData = <<C4_Row>> /\ mainData7 = <<C4_Row>>

\* C4 for StockChart.jsx alone, which refutes it west of UTC.
C4_StockChartJsx ==
    (phase # "input" /\ interval \in DailyIntervals /\ data = <<C4_First, C4_Second>>)
        => mainData = <<C4_Row>>

\* a row of the output came from the input record d
CameFrom(row, d) == \E k \in {row.time} : row = [d EXCEPT !.time = k]

\* C5, as stated: every output row came from an input record with a valid
\* timestamp and numeric open, high, low and close. part_007 refutes it.
C5_Claim ==
    phase # "input" =>
        /\ \A r \in 1..Len(mainData) : \E i \in ValidIdx : CameFrom(mainData[r], data[i])
        /\ \A r \in 1..Len(mainData7) : \E i \in ValidIdx : CameFrom(mainData7[r], data[i])

\* C5 for StockChart.jsx alone.
C5_StockChartJsx ==
    phase # "input" =>
        \A r \in 1..Len(mainData) : \E i \in ValidIdx : CameFrom(mainData[r], data[i])

\* ---------------------------------------------------------------- patterns
PatIdx == 1..Len(patterns)

Pts(i) == patternPoints(patterns[i].points, interval, tz)

\* the patterns that get a start marker: line series added, a first point left
Started == {i \in PatIdx : Renderable(patterns[i]) /\ Len(Pts(i)) > 0}

StartMarker(i) == [time |-> Pts(i)[1].time, text |-> patterns[i].name]

\* C7: a pattern with one point or none adds no line series and no marker:
\* no series carries its index, no marker its name, and there are no more
\* series and markers than patterns with two points or more.
C7_Theorem ==
    phase = "annotated" =>
      /\ \A i \in PatIdx : Len(patterns[i].points) <= 1 =>
            /\ \A s \in 1..Len(annot.series) : annot.series[s].pIdx # i
            /\ \A m \in 1..Len(annot.markers) : annot.markers[m].text # patterns[i].name
      /\ Len(annot.series) = Cardinality({i \in PatIdx : Len(patterns[i].points) >= 2})
      /\ Len(annot.markers) <= Cardinality({i \in PatIdx : Len(patterns[i].points) >= 2})

\* a one-point pattern next to a rendered one
C7_Witness ==
    /\ phase = "annotated"
    /\ \E i \in PatIdx : Len(patterns[i].points) = 1
    /\ Len(annot.series) = 1 /\ Len(annot.markers) = 1

\* a canonical time the chart can place: a number of seconds at intraday
\* granularity, a YYYY-MM-DD string at daily or coarser
Resolved(t) ==
    IF interval \in DailyIntervals THEN t.t = "string" /\ t.fmt = "date" ELSE t.t = "number"

DistinctTimes(pts) == {pts[k].time : k \in {k \in 1..Len(pts) : Resolved(pts[k].time)}}

\* C8, as stated: a line series is added (and markers set) only for a pattern
\* with at least two points of valid, pairwise distinct canonical times.
C8_Claim ==
    phase = "annotated" =>
      \A s \in 1..Len(annot.series) : Cardinality(DistinctTimes(annot.series[s].data)) >= 2

\* C9: the final marker array holds one start marker for every pattern that
\* starts somewhere, also when several start at the same canonical time, and
\* nothing else.
C9_Theorem ==
    phase = "annotated" =>
      /\ Len(annot.markers) = Cardinality(Started)
      /\ \A i \in Started :
           Cardinality({m \in 1..Len(annot.markers) : annot.markers[m] = StartMarker(i)})
             = Cardinality({j \in Started : StartMarker(j) = StartMarker(i)})

\* two different patterns starting at one canonical time, both marked
C9_Witness ==
    /\ phase = "annotated"
    /\ \E i, j \in Started :
         /\ patterns[i].name # patterns[j].name
         /\ StartMarker(i).time = StartMarker(j).time
         /\ \E m, n \in 1..Len(annot.markers) :
              m # n /\ annot.markers[m] = StartMarker(i) /\ annot.markers[n] = StartMarker(j)

\* C10, as stated: the markers are applied in one call, with an array in
\* ascending canonical time and without an unresolved time.
C10_Claim ==
    phase = "annotated" =>
      /\ Len(annot.calls) <= 1
      /\ \A c \in 1..Len(annot.calls) :
           /\ \A m \in 1..(Len(annot.calls[c]) - 1) :
                 annot.calls[c][m].time = annot.calls[c][m + 1].time
                   \/ KeyLess(annot.calls[c][m].time, annot.calls[c][m + 1].time)
           /\ \A m \in 1..Len(annot.calls[c]) : Resolved(annot.calls[c][m].time)

\* --------------------------------------------------------------- rebuilds
\* the candle input is empty or holds only invalid rows
NoValidRow(d) == \A i \in 1..Len(d) : ~Valid(d[i])

\* the rebuild for the current props has run to its end
RebuildDone == phase = "life" /\ mounted /\ timer = "none"

NothingRendered == \A k \in 1..Len(charts) : charts[k].removed

\* C6, as stated: after a rebuild with no valid candle no chart was
\* constructed, no chart is left in the container, whatever was rendered
\* before, and no error was raised. Both components refute it.
C6_Claim ==
    (RebuildDone /\ NoValidRow(data)) => ~createCalled /\ NothingRendered /\ ~raised

\* C6 for StockChart.jsx alone: an empty array returns before the teardown.
C6_StockChartJsx ==
    (RebuildDone /\ impl = "jsx" /\ NoValidRow(data)) => ~createCalled /\ NothingRendered /\ ~raised

\* C6 for part_007 alone: rows with a bad time or OHLC are not dropped.
C6_Part007 ==
    (RebuildDone /\ impl = "p7" /\ NoValidRow(data)) => ~createCalled /\ NothingRendered /\ ~raised

\* C11: with the trend tool selected, a click that resolves to a time and a
\* price in Idle records it as the pending point, moves the session to
\* AwaitingSecondPoint and leaves the drawing list as it was; the next such
\* click appends exactly one TrendLine from the first click to the second
\* and returns the session to Idle with no pending point.
C11_Theorem ==
    [][(lastEvent'.kind = "click" /\ lastEvent'.point.resolved /\ session.tool = "trend") =>
         IF SessionState(session) = "Idle"
         THEN /\ SessionState(session') = "AwaitingSecondPoint"
              /\ session'.pendingPoint = lastEvent'.point
              /\ session'.drawings = session.drawings
         ELSE /\ session'.drawings =
                   Append(session.drawings, TrendLine(session.pendingPoint, lastEvent'.point))
              /\ SessionState(session') = "Idle"
              /\ session'.pendingPoint = NoPoint]_vars

\* two clicks with the trend tool have committed one TrendLine between them
C11_Witness ==
    /\ lastEvent = [kind |-> "click", point |-> ChartPoint(2, 110), from |-> "AwaitingSecondPoint"]
    /\ session = Session("trend", NoPoint, NoPreview,
                         <<TrendLine(ChartPoint(1, 100), ChartPoint(2, 110))>>)

\* C12: pressing a tool button, from any state, discards the pending point,
\* clears the preview and leaves the drawing list as it was; the click that
\* follows it commits no TrendLine.
C12_Theorem ==
    [][/\ lastEvent'.kind = "select" =>
            /\ session'.pendingPoint = NoPoint
            /\ session'.preview = NoPreview
            /\ SessionState(session') = "Idle"
            /\ session'.drawings = session.drawings
       /\ (lastEvent.kind = "select" /\ lastEvent'.kind = "click") =>
            \/ session'.drawings = session.drawings
            \/ \E pr \in {100, 110} :
                 session'.drawings = Append(session.drawings, HorizontalLine(pr))]_vars

\* the trend tool toggled off between the two clicks, with a preview shown
C12_Witness ==
    /\ lastEvent.kind = "select"
    /\ lastEvent.from = "AwaitingSecondPoint"
    /\ session.tool = "none"
    /\ session.pendingPoint = NoPoint
    /\ session.preview = NoPreview

\* the vertical margin reserved on the main price pane
Reserved(m) == m.top + m.bottom

\* C13, first half alone: a toggle set that asks for at least as many
\* oscillator panes reserves at least as much on the main pane.
C13_Monotone ==
    phase = "pane" =>
      \A c \in SUBSET PaneToggles :
        /\ Requested(impl, c) >= layout.requested =>
             Reserved(Layout(impl, c).main) >= Reserved(layout.main)
        /\ Requested(impl, c) <= layout.requested =>
             Reserved(Layout(impl, c).main) <= Reserved(layout.main)

\* C13, as stated: the margin reserved on the main pane is monotone in the
\* number of active oscillator panes, and a toggle that turns one oscillator
\* pane on or off changes it.
C13_Claim ==
    /\ C13_Monotone
    /\ (phase = "pane" /\ layout.requested # prevLayout.requested) =>
         Reserved(layout.main) # Reserved(prevLayout.main)

\* the chart instances remove() has not been called on
Live == {k \in 1..Len(charts) : ~charts[k].removed}

\* C14: at most one chart instance that has not been removed exists, and
\* when a rebuild calls createChart every instance created before it has
\* been removed, an instance of a build that threw included.
C14_Theorem ==
    /\ [](phase = "life" => Cardinality(Live) <= 1)
    /\ [][(phase = "life" /\ createCalled' /\ (rebuilds' # rebuilds \/ timer' # timer)) =>
            \A k \in 1..Len(charts) : charts'[k].removed]_vars

\* a build threw after createChart, its instance was removed by the next
\* rebuild, and a later instance is in the container
C14_Witness ==
    /\ phase = "life"
    /\ \E k \in 1..Len(charts) :
         /\ charts[k].removed /\ ~charts[k].complete
         /\ \E j \in (k + 1)..Len(charts) : ~charts[j].removed /\ charts[j].complete

\* the chart instances the user sees: those not removed, in a container that
\* is rendered (part_007 renders the error text in place of the container)
Shown == IF localError \/ ~mounted THEN {} ELSE Live

\* C15, as stated: a rebuild in which createChart or a later call threw ends
\* with the error shown to the user and no chart, whole or partial, shown.
C15_Claim == (phase = "life" /\ mounted /\ raised) => (localError /\ Shown = {})

\* C15 for part_007 alone: catch -> setLocalError, the error text replaces
\* the container.
C15_Part007 == (phase = "life" /\ mounted /\ raised /\ impl = "p7") => (localError /\ Shown = {})

\* C15 for StockChart.jsx alone: catch -> console.error only.
C15_StockChartJsx == (phase = "life" /\ mounted /\ raised /\ impl = "jsx") => (localError /\ Shown = {})

\* C16, as stated: when the application of one pattern's line series or of
\* the markers throws, only that annotation is missing: the rebuild ends
\* with a chart that shows the main series and every other series of the
\* build, and no error state is raised.
C16_Claim ==
    (phase = "life" /\ mounted /\ thrownAt = "pattern") =>
        /\ ~localError
        /\ chartRef \in Shown
        /\ charts[chartRef].series >= Series7(chartConfig, analysis, interval, tz) - 1

\* C17, as stated: once no fullscreen request is pending, isFullscreen is
\* true exactly when the document has a fullscreen element; a denied request
\* does not leave isFullscreen true.
C17_Claim ==
    (phase = "life" /\ impl = "jsx" /\ mounted /\ fsRequests = <<>>) =>
        (isFullscreen <=> fullscreenElement)

\* C18: whatever rebuilds ran (complete, skipped for empty data, failed), at
\* most one resize listener and at most one fullscreenchange listener are
\* registered, and none is once the component is unmounted.
C18_Theorem ==
    phase = "life" =>
        /\ Cardinality(listeners) <= 1
        /\ fsListeners <= 1
        /\ ~mounted => (listeners = {} /\ fsListeners = 0)

\* after several rebuilds the one resize listener is that of the last build
C18_Witness ==
    /\ phase = "life" /\ impl = "jsx" /\ mounted
    /\ rebuilds >= 3
    /\ listeners = {Handler(rebuilds, chartRef)}
    /\ fsListeners = 1

\* C19, as stated: no callback a build registered (resize handler,
\* animation-frame callback) calls a method of a chart instance after
\* remove() was called on it.
C19_Claim == phase = "life" => ~stale

\* C19 for StockChart.jsx alone: its only callback, handleResize, is
\* unregistered by the cleanup before the next rebuild removes the chart.
C19_StockChartJsx == (phase = "life" /\ impl = "jsx") => ~stale

\* the data prop holds a candle the normalizer keeps
ValidCandles(d) == \E i \in 1..Len(d) : Valid(d[i])

\* C20, as stated: the error state is retryable. When a dependency change
\* has supplied valid candles and the rebuild it started has run to its end
\* without throwing, a chart is shown and the error is not, also when an
\* earlier rebuild failed and showed the error.
C20_Claim ==
    (RebuildDone /\ rebuilds >= 2 /\ ~raised /\ ValidCandles(data)) =>
        (~localError /\ Shown # {})

\* C20 without an earlier failure shown: the rebuild renders the chart.
C20_NoErrorShown ==
    (RebuildDone /\ rebuilds >= 2 /\ ~raised /\ ValidCandles(data) /\ ~localError) =>
        Shown # {}

\* the vertical slice of a sub-pane, in hundredths of the chart height
SliceTop(pn) == pn.top
SliceEnd(pn) == 100 - pn.bottom
Overlap(a, b) ==
    /\ SliceTop(a) < SliceEnd(a) /\ SliceTop(b) < SliceEnd(b)
    /\ SliceTop(a) < SliceEnd(b) /\ SliceTop(b) < SliceEnd(a)

\* C21, as stated: the slices of any two active sub-panes of a build do not
\* overlap, and a pane declared later starts where the earlier one ends or
\* below it.
C21_Claim ==
    (phase = "pane" /\ impl = "jsx") =>
        LET sp == SubPanes(chartConfig)
        IN \A i, j \in 1..Len(sp) :
             i < j => (~Overlap(sp[i], sp[j]) /\ SliceEnd(sp[i]) <= SliceTop(sp[j]))

\* C21 without the stacking order: no two slices overlap.
C21_NoOverlap ==
    (phase = "pane" /\ impl = "jsx") =>
        LET sp == SubPanes(chartConfig)
        IN \A i, j \in 1..Len(sp) : i < j => ~Overlap(sp[i], sp[j])

\* C27, as stated: every scale-margin pair applied to a sub-pane has
\* 0 <= top, 0 <= bottom and top + bottom <= 1, for any number of panes.
C27_Claim ==
    (phase = "pane" /\ impl = "jsx") =>
        LET sp == SubPanes(chartConfig)
        IN \A i \in 1..Len(sp) :
             sp[i].top >= 0 /\ sp[i].bottom >= 0 /\ sp[i].top + sp[i].bottom <= 100

\* the series added for an indicator key
SeriesFor(key) == {n \in 1..Len(overlays) : overlays[n].key = key}

\* the points of the candles whose field is defined, in canonical order
DefinedPoints(key) ==
    SelectSeq([i \in 1..Len(fieldRows) |-> [time |-> i, value |-> fieldRows[i][key]]],
              LAMBDA pt : pt.value # UndefV)

\* C22, as stated: a series is added for an indicator key exactly when its
\* toggle is enabled and some canonical candle has a value for the key; an
\* enabled indicator no candle has a value for adds no series.
C22_Claim ==
    phase = "overlaid" =>
        \A n \in 1..Len(OverlayKeys(impl)) :
            LET key == OverlayKeys(impl)[n]
            IN (SeriesFor(key) # {}) <=>
                 (ToggleOf(key) \in chartConfig /\ DefinedPoints(key) # <<>>)

\* C30, as stated: the points handed to the series of an enabled overlay or
\* oscillator are those of the candles whose field is defined, in canonical
\* order; a value of 0 is a point.
C30_Claim ==
    phase = "overlaid" =>
        \A n \in 1..Len(overlays) : overlays[n].data = DefinedPoints(overlays[n].key)

\* C30 for the MACD histogram alone, whose filter is d.macd_hist !== undefined.
C30_MacdHist ==
    phase = "overlaid" =>
        \A n \in 1..Len(overlays) :
            overlays[n].key = "macd_hist" => overlays[n].data = DefinedPoints("macd_hist")

\* C23, as stated: the point array handed to the line series of a rendered
\* pattern is in strictly ascending canonical time, whatever order the
\* pattern's points arrive in.
C23_Claim ==
    phase = "annotated" =>
        \A n \in 1..Len(annot.series) : StrictlyIncreasing(annot.series[n].data)

\* C23 for the pattern whose points arrive latest first.
C23_Back ==
    phase = "annotated" =>
        \A n \in 1..Len(annot.series) :
            annot.series[n].title = "back" => StrictlyIncreasing(annot.series[n].data)

\* every row carries the representation the granularity fixes
Canonical(fd) == \A i \in 1..Len(fd) : Resolved(fd[i].time)

\* C24, as stated: every row of a normalized sequence has a YYYY-MM-DD
\* string as its time when the interval is 1d, 1wk, 1mo or 1y and a number of
\* seconds otherwise, whatever the raw timestamps were.
C24_Claim == phase = "normalized" => (Canonical(mainData) /\ Canonical(mainData7))

\* C24 for StockChart.jsx alone: formatTime returns one representation per
\* interval.
C24_StockChartJsx == phase = "normalized" => Canonical(mainData)

\* C25 as stated: the session is in AwaitingSecondPoint only with the trend
\* tool; a pending point exists exactly when it is in AwaitingSecondPoint, and
\* so does the live preview; with the tool none or hline the session is Idle
\* with no pending point.
C25_Claim ==
    phase = "draw" =>
        /\ SessionState(session) = "AwaitingSecondPoint" => session.tool = "trend"
        /\ session.pendingPoint # NoPoint <=> SessionState(session) = "AwaitingSecondPoint"
        /\ session.preview.shown <=> SessionState(session) = "AwaitingSecondPoint"
        /\ session.tool \in {"none", "hline"} =>
              SessionState(session) = "Idle" /\ session.pendingPoint = NoPoint

\* C25: the session is in AwaitingSecondPoint only with the trend tool; a
\* pending point exists exactly when it is in AwaitingSecondPoint; a live
\* preview exists only in AwaitingSecondPoint and starts at the pending point
\* (it appears with the first pointer move after the first click); with the
\* tool none or hline the session is Idle with no pending point and no preview.
C25_Theorem ==
    phase = "draw" =>
        /\ SessionState(session) = "AwaitingSecondPoint" => session.tool = "trend"
        /\ session.pendingPoint # NoPoint <=> SessionState(session) = "AwaitingSecondPoint"
        /\ session.preview.shown =>
              /\ SessionState(session) = "AwaitingSecondPoint"
              /\ session.preview.start = session.pendingPoint
        /\ ~session.preview.shown => session.preview = NoPreview
        /\ session.tool \in {"none", "hline"} =>
              /\ SessionState(session) = "Idle"
              /\ session.pendingPoint = NoPoint
              /\ session.preview = NoPreview

\* the trend tool after a first click and a pointer move: a pending point
\* and a preview from it to the pointer
C25_Witness ==
    /\ lastEvent.kind = "move"
    /\ session.tool = "trend"
    /\ session.pendingPoint = ChartPoint(1, 100)
    /\ session.preview = [shown |-> TRUE, start |-> ChartPoint(1, 100), end |-> ChartPoint(2, 110)]

\* C26: the explicit clear action, taken in Idle or in AwaitingSecondPoint,
\* leaves the drawing list empty and the session Idle with no pending point
\* and no preview; the selected tool stays selected.
C26_Theorem ==
    [][lastEvent'.kind = "clear" =>
          /\ lastEvent'.from \in {"Idle", "AwaitingSecondPoint"}
          /\ session'.drawings = <<>>
          /\ SessionState(session') = "Idle"
          /\ session'.pendingPoint = NoPoint
          /\ session'.preview = NoPreview
          /\ session'.tool = session.tool]_vars

\* a clear taken in AwaitingSecondPoint with the trend tool
C26_Witness ==
    /\ lastEvent.kind = "clear"
    /\ lastEvent.from = "AwaitingSecondPoint"
    /\ session = Session("trend", NoPoint, NoPreview, <<>>)

\* the chart is on the page: history.length > 0
Rendered == history # NoHistory

\* the props of the chart agree once nothing is in flight
SameInterval ==
    (phase = "page" /\ selected /\ requests = {} /\ Rendered) =>
        StockChartProps(history, selectedInterval).data.fetchedFor =
            StockChartProps(history, selectedInterval).interval

\* C28: after the user selects an interval and every request in flight has
\* settled, the candle array handed to StockChart was fetched for the
\* interval handed to it; and the response of an earlier request never
\* replaces the data of a later one.
C28_Claim == []SameInterval /\ [][history'.seq >= history.seq]_vars

\* C28, second half alone: history only moves to the data of a later request.
C28_EarlierResponse == [][history'.seq >= history.seq]_vars

\* C28, first half for AnalysisPage when no request was rejected.
C28_AnalysisPage == (page = "AnalysisPage" /\ ~rejected) => SameInterval

\* C28, first half for App when no request was rejected.
C28_App == (page = "App" /\ ~rejected) => SameInterval

\* C29: after the component is unmounted, no chart instance it created is
\* left without remove() called on it.
C29_Claim == (phase = "life" /\ ~mounted) => Live = {}

\* C29 for StockChart.jsx alone.
C29_StockChartJsx == (phase = "life" /\ ~mounted /\ impl = "jsx") => Live = {}

\* C29 for part_007 alone.
C29_Part007 == (phase = "life" /\ ~mounted /\ impl = "p7") => Live = {}

\* C29 for part_007 when no build threw: the cleanup removes the instance.
C29_Part007NoThrow == (phase = "life" /\ ~mounted /\ impl = "p7" /\ ~localError) => Live = {}

============================================================================
